---- MODULE Spec2Model ----
(***************************************************************************)
(* Client flows of the MONAI Cloud API tutorial notebooks.                 *)
(*                                                                         *)
(* Each notebook is a straight-line program of cells run top to bottom     *)
(* ("Run All"): the first exception (a failed assert, a KeyError on a      *)
(* missing body field, an IndexError on an empty list, a NameError on an   *)
(* undefined name) stops the run.  The server is external: its response    *)
(* codes, bodies and the duration of each call are nondeterministic.       *)
(* Every HTTP request the client sends is appended, with the response it   *)
(* got, to the history variable log; the statuses that wait_for_job reads  *)
(* are kept in its own variable observed.                                  *)
(***************************************************************************)
EXTENDS Integers, Sequences, FiniteSets, TLC

(* ------------------------------ bounds --------------------------------- *)

\* Largest timeout handed to wait_for_job, in polling intervals.
MaxIntervals == 3

\* Longest duration of one GET inside wait_for_job, in seconds.
MaxLatency == 1

(* ------------------------- program constants --------------------------- *)

\* time.sleep(5) between two polls.
Interval == 5

CodeOk == 200
CodeCreated == 201
\* Stands for every response code that is neither 200 nor 201.
CodeError == 500

\* The codes a request may be answered with: the one its cell expects, an
\* error, and for the download also a success code that is not the expected
\* one (the Auto3DSeg cell checks it with raise_for_status).
Expected(op) ==
    IF op \in {"login", "create_dataset", "create_experiment", "submit_job"}
    THEN CodeCreated ELSE CodeOk
Codes(op) ==
    {Expected(op), CodeError} \cup (IF op = "download" THEN {CodeCreated} ELSE {})

\* Values of names and body fields that are absent.
Undefined == 0
NoStatus == "<missing>"
NoToken == "<missing>"
NoValue == "None"

\* Status strings the server may put on the wire.  "done" is a letter-case
\* variant of "Done"; "Error" stands for every value that is none of
\* Pending, Running, Done in any letter case.
WireStatuses == {"Pending", "Running", "Done", "Error", "done"}

\* Timeouts a caller may pass to wait_for_job (the notebooks pass 1800 and
\* 600; the function accepts any number): a negative one, zero, one that
\* is no multiple of the interval, and a whole number of intervals.
Timeouts == {-1, 0, Interval + 2, MaxIntervals * Interval}

Flows == {"credentials", "dataset", "segmentation", "custom", "auto3dseg"}

\* Names of the notebook variables that hold resource ids.
Names ==
    {"train_dataset_id", "val_dataset_id", "dataset_id", "infer_dataset_id",
     "ptm_vista", "ptm_annotation", "ptm_deepedit", "base_experiment_id",
     "experiment_id", "automl_experiment_id",
     "job_id", "automl_job_id", "infer_job_id"}

(* ---------------------------- the server ------------------------------- *)

\* One entry of the experiment listing (GET .../experiments).
Exp(id, arch, name, version, nbase) ==
    [id |-> id, network_arch |-> arch, name |-> name, version |-> version,
     nbase |-> nbase]

Vista(id)      == Exp(id, "monai_vista3d", "VISTA-3D", 1, 0)
DeepEdit(id)   == Exp(id, "monai_annotation", "DeepEdit", 1, 0)
Auto3d(id, v)  == Exp(id, "monai_automl", "MONAI Auto3dSeg", v, 0)

\* Listings the server may answer with: ids 101.. are experiments that exist
\* before the session starts.
Listings ==
    { << >>,
      << Vista(101), DeepEdit(102), Auto3d(104, 1) >>,
      << Vista(101), Auto3d(103, 1), Auto3d(104, 2) >>,
      << Auto3d(104, 2), Auto3d(103, 1), DeepEdit(102), Vista(101) >>,
      << Exp(105, "monai_vista3d", "mine", 1, 1),
         Exp(106, "monai_automl", "other", 3, 0), DeepEdit(102) >> }

\* Listings of the user's own monai_segmentation experiments: 201 is the
\* experiment generated by the auto3dseg job of this session, 301 one that
\* the user owns from an earlier session.
GeneratedListings == { << >>, <<201>>, <<301, 201>> }

\* Values of "base_experiment" echoed by an experiment-create response.
BaseLists == { << >>, <<401>>, <<401, 402>> }

\* Answers to a job GET: with code 200 any wire status; a response with
\* another code may lack the status field or carry one.
JobResponses ==
    {[code |-> CodeOk, status |-> s] : s \in WireStatuses}
    \cup {[code |-> CodeError, status |-> s] : s \in {NoStatus, "Done"}}

\* Answers to the status GET of a download or cleanup cell: these cells do
\* not tell Pending from Running, so Running stands for both.
GateResponses == {r \in JobResponses : r.status # "Pending"}

(* ------------------------- pure client functions ----------------------- *)

\* str.title() on the wire statuses.
Title(s) ==
    CASE s = "done" -> "Done"
      [] s = "Pending" -> "Pending"
      [] s = "Running" -> "Running"
      [] s = "Done" -> "Done"
      [] s = "Error" -> "Error"
      [] OTHER -> s

\* The exit test that goes on for Running only.
IsWaitingOnlyRunning(status) == status = "Running"

\* status not in ["Pending", "Running"] is the loop's exit test.
IsWaiting(status) == status \in {"Pending", "Running"}

\* The assertion with the title-casing forgotten on its side.
IsDoneLowercase(status) == status = "done"

\* assert status == "Done"
IsDone(status) == status = "Done"

\* The timeout test with one polling interval of slack.
TimedOutLate(elapsed_, timeout_) == elapsed_ > timeout_ + Interval

\* time.time() - start_time > timeout
TimedOut(elapsed_, timeout_) == elapsed_ > timeout_

\* The clock started only when the first GET has returned.
StartTimeAfterFirstGet(first) == first

\* start_time = time.time() is the first statement of wait_for_job: on the
\* time axis of the call, whose origin is the entry, the clock starts at 0
\* whenever the first GET returns.
StartTime(first) == 0

\* wait_for_job ending with "return status".
ReturnValueStatus(status) == status

\* wait_for_job has no return statement: the call evaluates to None.
ReturnValue(status) == NoValue

\* The download gate that only holds back a failed job.
DownloadAllowedUnlessError(raw) == raw # "Error"

\* if response.json()["status"] == "Done": the raw body field is compared.
DownloadAllowed(raw) == raw = "Done"

\* The cancel gate that only cancels a job reported as Running.
CancelNeededIfRunning(raw) == raw = "Running"

\* if response.json()["status"] != "Done": the raw body field is compared.
CancelNeeded(raw) == raw # "Done"

\* A cell with the assertion on the status code left out.
CodeIsUnchecked(code, expected) == TRUE

\* assert response.status_code == N
CodeIs(code, expected) == code = expected

\* r.raise_for_status() raises for 4xx and 5xx only.
RaiseForStatusPasses(code) == code < 400

\* The login cell without the assertion on the token.
LoginOkNoTokenCheck(code, has_user_id, has_token) ==
    code = CodeCreated /\ has_user_id

\* The login cell's three assertions.
LoginOk(code, has_user_id, has_token) ==
    CodeIs(code, CodeCreated) /\ has_user_id /\ has_token

\* The header sent without the authentication scheme.
AuthorizationBare(token_) == token_

\* headers = {"Authorization": f"Bearer {token}"}
Authorization(token_) == "Bearer " \o token_

\* base_url = f"{host_url}/api/v1/users/{user_id}"
BaseUrl(user_id_) == "/api/v1/users/" \o user_id_

\* [p for p in res if ...] for the two filters of the notebooks.
FilterBase(s, arch) ==
    SelectSeq(s, LAMBDA p : p.network_arch = arch /\ p.nbase = 0)
FilterAutoml(s) ==
    SelectSeq(s, LAMBDA p : p.network_arch = "monai_automl"
                            /\ p.name = "MONAI Auto3dSeg")

\* The selection that takes the first match as listed.
FirstListed(s) == s[1]

\* sorted(automl_base_exps, key=lambda x: x["version"])[-1]: the sort is
\* stable, so among the entries of greatest version the last listed wins.
LatestVersion(s) ==
    LET top == {i \in 1..Len(s) : \A j \in 1..Len(s) : s[j].version <= s[i].version}
        last == CHOOSE i \in top : \A j \in top : j <= i
    IN  s[last]

(* ------------------------------ programs ------------------------------- *)

\* Marks a step field that names no notebook variable.
None == "-"

\* One step of a notebook: op is the request it sends, var the name it
\* assigns, exp / job the names it reads to build the URL, dss / base the
\* names it reads to build the payload, data what else of the request body
\* tells two requests apart, check how the response code is checked, skip
\* the number of following steps that sit inside the step's if-block.
Step(op, var, exp, job, dss) ==
    [op |-> op, var |-> var, exp |-> exp, job |-> job, dss |-> dss,
     base |-> None, data |-> "", check |-> "assert", skip |-> 0]

ProgCredentials == << Step("login", None, None, None, {}) >>

\* The dataset notebook with its two delete cells in the other order.
ProgDatasetDeletesDatasetFirst ==
    << Step("login", None, None, None, {}),
       [Step("create_dataset", "dataset_id", None, None, {})
            EXCEPT !.data = "mydataset"],
       Step("list_base", "ptm_deepedit", None, None, {}),
       [Step("create_experiment", "experiment_id", None, None,
            {"dataset_id"}) EXCEPT !.base = "ptm_vista"],
       Step("delete_dataset", None, None, None, {"dataset_id"}),
       Step("delete_experiment", None, "experiment_id", None, {}) >>

ProgDataset ==
    << Step("login", None, None, None, {}),
       [Step("create_dataset", "dataset_id", None, None, {})
            EXCEPT !.data = "mydataset"],
       Step("list_base", "ptm_deepedit", None, None, {}),
       [Step("create_experiment", "experiment_id", None, None,
            {"dataset_id"}) EXCEPT !.base = "ptm_vista"],
       Step("delete_experiment", None, "experiment_id", None, {}),
       Step("delete_dataset", None, None, None, {"dataset_id"}) >>

\* The segmentation notebook without the DELETE of the validation dataset.
ProgSegmentationKeepsValDataset ==
    << Step("login", None, None, None, {}),
       [Step("create_dataset", "train_dataset_id", None, None, {})
            EXCEPT !.data = "MONAI_seg_train"],
       [Step("create_dataset", "val_dataset_id", None, None, {})
            EXCEPT !.data = "MONAI_seg_val"],
       Step("list_base", "ptm_annotation", None, None, {}),
       [Step("create_experiment", "experiment_id", None, None,
            {"train_dataset_id", "val_dataset_id"}) EXCEPT !.base = "ptm_vista"],
       Step("submit_job", "job_id", "experiment_id", None, {}),
       Step("get_job", None, "experiment_id", "job_id", {}),
       Step("wait_for_job", None, "experiment_id", "job_id", {}),
       [Step("download_gate", None, "experiment_id", "job_id", {}) EXCEPT !.skip = 2],
       Step("download", None, "experiment_id", "job_id", {}),
       [Step("download", None, "experiment_id", "job_id", {})
            EXCEPT !.data = "export_type=monai_bundle"],
       [Step("cancel_gate", None, "experiment_id", "job_id", {}) EXCEPT !.skip = 1],
       Step("cancel", None, "experiment_id", "job_id", {}),
       Step("delete_experiment", None, "experiment_id", None, {}),
       Step("delete_dataset", None, None, None, {"train_dataset_id"}) >>

ProgSegmentation ==
    << Step("login", None, None, None, {}),
       [Step("create_dataset", "train_dataset_id", None, None, {})
            EXCEPT !.data = "MONAI_seg_train"],
       [Step("create_dataset", "val_dataset_id", None, None, {})
            EXCEPT !.data = "MONAI_seg_val"],
       Step("list_base", "ptm_annotation", None, None, {}),
       [Step("create_experiment", "experiment_id", None, None,
            {"train_dataset_id", "val_dataset_id"}) EXCEPT !.base = "ptm_vista"],
       Step("submit_job", "job_id", "experiment_id", None, {}),
       Step("get_job", None, "experiment_id", "job_id", {}),
       Step("wait_for_job", None, "experiment_id", "job_id", {}),
       [Step("download_gate", None, "experiment_id", "job_id", {}) EXCEPT !.skip = 2],
       Step("download", None, "experiment_id", "job_id", {}),
       [Step("download", None, "experiment_id", "job_id", {})
            EXCEPT !.data = "export_type=monai_bundle"],
       [Step("cancel_gate", None, "experiment_id", "job_id", {}) EXCEPT !.skip = 1],
       Step("cancel", None, "experiment_id", "job_id", {}),
       Step("delete_experiment", None, "experiment_id", None, {}),
       Step("delete_dataset", None, None, None, {"train_dataset_id"}),
       Step("delete_dataset", None, None, None, {"val_dataset_id"}) >>

\* The custom-bundle notebook with the cancel POST outside its if-block.
ProgCustomCancelsAlways ==
    << Step("login", None, None, None, {}),
       [Step("create_dataset", "dataset_id", None, None, {})
            EXCEPT !.data = "MONAI_CLOUD"],
       Step("create_experiment", "experiment_id", None, None, {"dataset_id"}),
       Step("submit_job", "job_id", "experiment_id", None, {}),
       Step("get_job", None, "experiment_id", "job_id", {}),
       Step("wait_for_job", None, "experiment_id", "job_id", {}),
       [Step("download_gate", None, "experiment_id", "job_id", {}) EXCEPT !.skip = 1],
       Step("download", None, "experiment_id", "job_id", {}),
       Step("cancel_gate", None, "experiment_id", "job_id", {}),
       Step("cancel", None, "experiment_id", "job_id", {}),
       Step("delete_experiment", None, "experiment_id", None, {}),
       Step("delete_base_experiments", None, None, None, {}),
       Step("delete_dataset", None, None, None, {"dataset_id"}) >>

ProgCustom ==
    << Step("login", None, None, None, {}),
       [Step("create_dataset", "dataset_id", None, None, {})
            EXCEPT !.data = "MONAI_CLOUD"],
       Step("create_experiment", "experiment_id", None, None, {"dataset_id"}),
       Step("submit_job", "job_id", "experiment_id", None, {}),
       Step("get_job", None, "experiment_id", "job_id", {}),
       Step("wait_for_job", None, "experiment_id", "job_id", {}),
       [Step("download_gate", None, "experiment_id", "job_id", {}) EXCEPT !.skip = 1],
       Step("download", None, "experiment_id", "job_id", {}),
       [Step("cancel_gate", None, "experiment_id", "job_id", {}) EXCEPT !.skip = 1],
       Step("cancel", None, "experiment_id", "job_id", {}),
       Step("delete_experiment", None, "experiment_id", None, {}),
       Step("delete_base_experiments", None, None, None, {}),
       Step("delete_dataset", None, None, None, {"dataset_id"}) >>

ProgAuto3dseg ==
    << Step("login", None, None, None, {}),
       [Step("create_dataset", "train_dataset_id", None, None, {})
            EXCEPT !.data = "train_sim_data_azure"],
       [Step("create_dataset", "infer_dataset_id", None, None, {})
            EXCEPT !.data = "test_sim_data_azure"],
       Step("list_base", "base_experiment_id", None, None, {}),
       [Step("create_experiment", "automl_experiment_id", None, None,
            {"train_dataset_id", "infer_dataset_id"}) EXCEPT !.base = "base_experiment_id"],
       Step("submit_job", "automl_job_id", "automl_experiment_id", None, {}),
       Step("get_job", None, "automl_experiment_id", "automl_job_id", {}),
       Step("wait_for_job", None, "automl_experiment_id", "automl_job_id", {}),
       Step("list_generated", "experiment_id", None, None, {}),
       Step("get_experiment", None, "experiment_id", None, {}),
       Step("submit_job", "infer_job_id", "experiment_id", None, {"infer_dataset_id"}),
       Step("get_job", None, "experiment_id", "infer_job_id", {}),
       Step("wait_for_job", None, "experiment_id", "infer_job_id", {}),
       [Step("download_gate", None, "experiment_id", "infer_job_id", {}) EXCEPT !.skip = 1],
       [Step("download", None, "experiment_id", "infer_job_id", {})
            EXCEPT !.check = "raise_for_status"],
       [Step("cancel_gate", None, "automl_experiment_id", "automl_job_id", {})
            EXCEPT !.skip = 1],
       Step("cancel", None, "automl_experiment_id", "automl_job_id", {}),
       [Step("cancel_gate", None, "experiment_id", "infer_job_id", {}) EXCEPT !.skip = 1],
       Step("cancel", None, "experiment_id", "job_id", {}),
       Step("delete_experiment", None, "automl_experiment_id", None, {}),
       Step("delete_experiment", None, "experiment_id", None, {}),
       Step("delete_dataset", None, None, None, {"train_dataset_id"}),
       Step("delete_dataset", None, None, None, {"infer_dataset_id"}) >>

Program(f) ==
    CASE f = "credentials"  -> ProgCredentials
      [] f = "dataset"      -> ProgDataset
      [] f = "segmentation" -> ProgSegmentation
      [] f = "custom"       -> ProgCustom
      [] f = "auto3dseg"    -> ProgAuto3dseg

(* ------------------------------- state --------------------------------- *)

VARIABLES
    flow,                \* the notebook being run
    ip,                  \* index of the next step of Program(flow)
    error,               \* the exception that stopped the run, or NoError
    user_id, token,      \* from the login response
    base_url,            \* the URL prefix of every later request
    headers,             \* the value of the Authorization header
    env,                 \* the notebook variables that hold resource ids
    res,                 \* the experiment listing, until the next cell has run
    automl_base_exps,    \* its Auto3DSeg matches, until the next cell has run
    base_experiment_ids, \* res["base_experiment"] of the custom-bundle notebook
    rest,                \* the part of base_experiment_ids the delete loop has left
    next_id,             \* the id the server gives to the next created resource
    files,               \* job ids whose archive {job_id}.tar.gz was written
    log,                 \* history: every request sent, with its response
    read_status,         \* history: the raw status a cell read last
    \* wait_for_job, current or last call
    timeout,             \* its timeout argument
    elapsed,             \* seconds since the call was entered
    first_seen,          \* the value of elapsed when its first GET returned
    status,              \* its local variable status
    observed,            \* the wire statuses its GETs have returned
    printed,             \* what it has printed
    outcome,             \* "idle", "active", or how the call ended
    wfj_return,          \* the value the call evaluates to
    calls                \* history: each ended call's job, outcome, and whether
                         \* its status was still Pending or Running

sessionVars == << user_id, token, base_url, headers >>
listVars == << res, automl_base_exps >>
flowVars == << flow, ip, error, sessionVars, env, listVars,
               base_experiment_ids, rest, next_id, files, log, read_status,
               calls >>
wfjVars == << timeout, elapsed, first_seen, status, observed, printed, outcome,
             wfj_return >>
vars == << flowVars, wfjVars >>

NoError == "none"
UserId == "uid-1"
Jwt == "jwt-1"

Init ==
    /\ flow \in Flows
    /\ ip = 1
    /\ error = NoError
    /\ user_id = NoValue
    /\ token = NoToken
    /\ base_url = NoValue
    /\ headers = NoToken
    /\ env = [n \in Names |-> Undefined]
    /\ res = << >>
    /\ automl_base_exps = << >>
    /\ base_experiment_ids = << >>
    /\ rest = << >>
    /\ next_id = 1
    /\ files = {}
    /\ log = << >>
    /\ read_status = NoStatus
    /\ timeout = 0
    /\ elapsed = 0
    /\ first_seen = 0
    /\ status = NoStatus
    /\ observed = << >>
    /\ printed = << >>
    /\ outcome = "idle"
    /\ wfj_return = NoValue
    /\ calls = << >>

(* ------------------------------ helpers -------------------------------- *)

Running == error = NoError /\ ip <= Len(Program(flow))
Cur == Program(flow)[ip]
At(op) == Running /\ Cur.op = op

\* The names a step reads; reading an undefined one raises NameError.
Reads(step) == ({step.exp, step.job, step.base} \cup step.dss) \ {None}
Defined(step) == \A n \in Reads(step) : env[n] # Undefined
Val(n) == IF n = None THEN Undefined ELSE env[n]

\* The HTTP method of each request: requests.post, requests.delete,
\* requests.get.
Method(op) ==
    CASE op \in {"login", "create_dataset", "create_experiment", "submit_job",
                 "cancel"} -> "POST"
      [] op \in {"delete_experiment", "delete_dataset"} -> "DELETE"
      [] OTHER -> "GET"

\* The request of the current step, as sent by ctx, and one log entry.
Entry(ctx, resp) ==
    [op |-> Cur.op, ctx |-> ctx, exp |-> Val(Cur.exp), job |-> Val(Cur.job),
     dss |-> {Val(n) : n \in Cur.dss}, base |-> Val(Cur.base), data |-> Cur.data,
     root |-> base_url, auth |-> headers,
     code |-> resp.code, keys |-> resp.keys, rid |-> resp.rid,
     done |-> resp.done, listed |-> resp.listed]

\* A response as the history keeps it: its code and, of its JSON body, the
\* keys of a login answer, the id of a created resource, whether the job
\* status a cell read is exactly "Done", the ids of a listing.
Resp(code, keys, rid, done, listed) ==
    [code |-> code, keys |-> keys, rid |-> rid, done |-> done, listed |-> listed]

Plain(code) == Resp(code, {}, Undefined, FALSE, << >>)
Created(code, id) == Resp(code, {}, IF code = CodeCreated THEN id ELSE Undefined,
                          FALSE, << >>)
JobBody(r) == Resp(r.code, {}, Undefined, r.status = "Done", << >>)

Sent(e) == log' = Append(log, e)

Stop(err) == error' = err /\ ip' = ip
Go(n) == error' = NoError /\ ip' = ip + n

(* ------------------------------ the cells ------------------------------ *)

\* A step that reads an undefined notebook variable raises NameError before
\* it sends anything.
RaiseNameError ==
    /\ Running
    /\ ~Defined(Cur)
    /\ Stop("NameError")
    /\ UNCHANGED << flow, listVars, sessionVars, env, base_experiment_ids, rest,
                    next_id, files, log, calls, read_status, wfjVars >>

\* The two notebooks that assign user_id between the two body assertions.
AssignsUserIdEarly(f) == f \in {"credentials", "segmentation", "custom"}

Login ==
    /\ At("login")
    /\ \E code \in Codes("login"), has_user_id \in BOOLEAN, has_token \in BOOLEAN :
          LET keys == (IF has_user_id THEN {"user_id"} ELSE {})
                      \cup (IF has_token THEN {"token"} ELSE {})
          IN  /\ Sent(Entry("cell", Resp(code, keys, Undefined, FALSE, << >>)))
              /\ IF LoginOk(code, has_user_id, has_token)
                 THEN /\ user_id' = UserId
                      /\ token' = Jwt
                      /\ base_url' = BaseUrl(UserId)
                      /\ headers' = Authorization(Jwt)
                      /\ Go(1)
                 ELSE /\ user_id' = IF /\ AssignsUserIdEarly(flow)
                                       /\ CodeIs(code, CodeCreated)
                                       /\ has_user_id
                                    THEN UserId ELSE user_id
                      /\ UNCHANGED << token, base_url, headers >>
                      /\ Stop("AssertionError: login")
    /\ UNCHANGED << flow, listVars, env, base_experiment_ids, rest, next_id, files,
                    calls, read_status, wfjVars >>

CreateDataset ==
    /\ At("create_dataset")
    /\ Defined(Cur)
    /\ \E code \in Codes(Cur.op) :
          /\ Sent(Entry("cell", Created(code, next_id)))
          /\ IF CodeIs(code, CodeCreated)
             THEN /\ env' = [env EXCEPT ![Cur.var] = next_id]
                  /\ next_id' = next_id + 1
                  /\ Go(1)
             ELSE /\ UNCHANGED << env, next_id >>
                  /\ Stop("AssertionError: code")
    /\ UNCHANGED << flow, listVars, sessionVars, base_experiment_ids, rest, files,
                    calls, read_status, wfjVars >>

\* The cell that lists the experiments and picks the base experiment(s).
ListBaseExperiments ==
    /\ At("list_base")
    /\ Defined(Cur)
    /\ \E code \in Codes(Cur.op), body \in Listings :
          /\ Sent(Entry("cell", Plain(code)))
          /\ IF ~CodeIs(code, CodeOk)
             THEN /\ Stop("AssertionError: code")
                  /\ UNCHANGED << env, listVars >>
             ELSE IF flow = "auto3dseg"
             THEN /\ res' = body
                  /\ automl_base_exps' = FilterAutoml(body)
                  /\ IF Len(FilterAutoml(body)) > 0
                     THEN /\ env' = [env EXCEPT ![Cur.var] =
                                         LatestVersion(FilterAutoml(body)).id]
                          /\ Go(1)
                     ELSE /\ Stop("AssertionError: empty")
                          /\ UNCHANGED env
             ELSE LET vista == FilterBase(body, "monai_vista3d")
                      annot == FilterBase(body, "monai_annotation")
                  IN  /\ res' = body
                      /\ UNCHANGED automl_base_exps
                      /\ IF vista = << >>
                         THEN Stop("IndexError") /\ UNCHANGED env
                         ELSE IF annot = << >>
                         THEN /\ Stop("IndexError")
                              /\ env' = [env EXCEPT !["ptm_vista"] = vista[1].id]
                         ELSE /\ Go(1)
                              /\ env' = [env EXCEPT !["ptm_vista"] = vista[1].id,
                                                    ![Cur.var] = annot[1].id]
    /\ UNCHANGED << flow, sessionVars, base_experiment_ids, rest, next_id,
                    files, calls, read_status, wfjVars >>

CreateExperiment ==
    /\ At("create_experiment")
    /\ Defined(Cur)
    /\ \E code \in Codes(Cur.op), echo \in BaseLists :
          /\ flow # "custom" => echo = << >>
          /\ Sent(Entry("cell", Resp(code, {},
                        IF code = CodeCreated THEN next_id ELSE Undefined,
                        FALSE, IF code = CodeCreated THEN echo ELSE << >>)))
          /\ IF CodeIs(code, CodeCreated)
             THEN /\ env' = [env EXCEPT ![Cur.var] = next_id]
                  /\ next_id' = next_id + 1
                  /\ base_experiment_ids' = echo
                  /\ rest' = echo
                  /\ Go(1)
             ELSE /\ UNCHANGED << env, next_id, base_experiment_ids, rest >>
                  /\ Stop("AssertionError: code")
    /\ res' = << >>
    /\ automl_base_exps' = << >>
    /\ UNCHANGED << flow, sessionVars, files, calls, read_status, wfjVars >>

\* The job submission followed, when it fails, by a rollback that deletes
\* the experiment.
SubmitJobRollsBack ==
    /\ At("submit_job")
    /\ Defined(Cur)
    /\ \E code \in Codes(Cur.op) :
          /\ IF CodeIs(code, CodeCreated)
             THEN /\ Sent(Entry("cell", Created(code, next_id)))
                  /\ env' = [env EXCEPT ![Cur.var] = next_id]
                  /\ next_id' = next_id + 1
                  /\ Go(1)
             ELSE /\ log' = log \o << Entry("cell", Created(code, next_id)),
                                      [Entry("cell", Plain(CodeOk)) EXCEPT
                                           !.op = "delete_experiment"] >>
                  /\ UNCHANGED << env, next_id >>
                  /\ Stop("AssertionError: code")
    /\ UNCHANGED << flow, listVars, sessionVars, base_experiment_ids, rest, files,
                    calls, read_status, wfjVars >>

SubmitJob ==
    /\ At("submit_job")
    /\ Defined(Cur)
    /\ \E code \in Codes(Cur.op) :
          /\ Sent(Entry("cell", Created(code, next_id)))
          /\ IF CodeIs(code, CodeCreated)
             THEN /\ env' = [env EXCEPT ![Cur.var] = next_id]
                  /\ next_id' = next_id + 1
                  /\ Go(1)
             ELSE /\ UNCHANGED << env, next_id >>
                  /\ Stop("AssertionError: code")
    /\ UNCHANGED << flow, listVars, sessionVars, base_experiment_ids, rest, files,
                    calls, read_status, wfjVars >>

\* The first half of the monitoring cell: GET the job, assert 200, print the
\* body (no field of it is read by name).
GetJob ==
    /\ At("get_job")
    /\ Defined(Cur)
    /\ \E code \in Codes(Cur.op) :
          /\ Sent(Entry("cell", Plain(code)))
          /\ IF CodeIs(code, CodeOk) THEN Go(1) ELSE Stop("AssertionError: code")
    /\ UNCHANGED << flow, listVars, sessionVars, env, base_experiment_ids, rest,
                    next_id, files, calls, read_status, wfjVars >>

\* Auto3DSeg: pick the first of the user's monai_segmentation experiments.
ListGenerated ==
    /\ At("list_generated")
    /\ Defined(Cur)
    /\ \E code \in Codes(Cur.op), experiments \in GeneratedListings :
          /\ Sent(Entry("cell", Resp(code, {}, Undefined, FALSE, experiments)))
          /\ IF ~CodeIs(code, CodeOk)
             THEN Stop("AssertionError: code") /\ UNCHANGED env
             ELSE IF ~(Len(experiments) > 0)
             THEN Stop("AssertionError: empty") /\ UNCHANGED env
             ELSE /\ env' = [env EXCEPT ![Cur.var] = experiments[1]]
                  /\ Go(1)
    /\ UNCHANGED << flow, listVars, sessionVars, base_experiment_ids, rest, next_id,
                    files, calls, read_status, wfjVars >>

GetExperiment ==
    /\ At("get_experiment")
    /\ Defined(Cur)
    /\ \E code \in Codes(Cur.op) :
          /\ Sent(Entry("cell", Plain(code)))
          /\ IF CodeIs(code, CodeOk) THEN Go(1) ELSE Stop("AssertionError: code")
    /\ UNCHANGED << flow, listVars, sessionVars, env, base_experiment_ids, rest,
                    next_id, files, calls, read_status, wfjVars >>

(* ---------------------------- wait_for_job ----------------------------- *)

\* The comparison of the newly observed status with the tracked one.
Tracked(status_, status_new) == IF status_new # status_ THEN status_new ELSE status_

\* The status printed after every poll, changed or not.
NoticeAlways(status_, status_new) == status_new

\* if status_new != status: print(status) else: print(".")
Notice(status_, status_new) == IF status_new # status_ THEN status_new ELSE "."

\* A status request that is sent as a POST to the :cancel action.
StatusRequestCancels(code) ==
    [Entry("wait_for_job", Plain(code)) EXCEPT !.op = "cancel"]

\* requests.get(endpoint, headers=headers) inside wait_for_job, as the
\* history keeps it.
StatusRequest(code) == Entry("wait_for_job", Plain(code))

\* A loop that sleeps for less than the polling interval.
AdvanceShortSleep(latency) == 2 + latency

\* time.sleep(5) and the GET that follows it move the clock by the interval
\* and the duration of the GET.
Advance(latency) == Interval + latency

\* Entry of wait_for_job up to the loop: start the clock, first GET, assert
\* 200, title-case the status, print the header.
WfjStart ==
    /\ At("wait_for_job")
    /\ Defined(Cur)
    /\ outcome = "idle"
    /\ \E t \in Timeouts, latency \in 0..MaxLatency, r \in JobResponses :
          /\ timeout' = t
          /\ elapsed' = latency
          /\ first_seen' = latency
          /\ wfj_return' = NoValue
          /\ Sent(StatusRequest(r.code))
          /\ IF CodeIs(r.code, CodeOk)
             THEN /\ status' = Title(r.status)
                  /\ observed' = << r.status >>
                  /\ printed' = << "Waiting for job to complete...", Title(r.status) >>
                  /\ outcome' = "active"
                  /\ Go(0)
             ELSE /\ status' = NoStatus
                  /\ observed' = << >>
                  /\ printed' = << >>
                  /\ outcome' = "http_failed"
                  /\ Stop("AssertionError: code")
    /\ UNCHANGED << flow, listVars, sessionVars, env, base_experiment_ids, rest,
                    next_id, files, calls, read_status >>

\* A loop iteration that finds a status other than Pending / Running: the
\* assertion on Done, the break, the final print and the return.
WfjExit ==
    /\ At("wait_for_job")
    /\ outcome = "active"
    /\ ~IsWaiting(status)
    /\ IF IsDone(status)
       THEN /\ outcome' = "normal"
            /\ printed' = Append(printed, "Job status: " \o status)
            /\ wfj_return' = ReturnValue(status)
            /\ Go(0)
       ELSE /\ outcome' = "job_failed"
            /\ Stop("AssertionError: job failed")
            /\ UNCHANGED << printed, wfj_return >>
    /\ UNCHANGED << flow, listVars, sessionVars, env, base_experiment_ids, rest,
                    next_id, files, log, calls, read_status, timeout,
                    elapsed, first_seen, status, observed >>

\* A loop iteration that finds Pending / Running: sleep, GET, assert 200,
\* compare and print, then the timeout test (and on timeout the break, the
\* final print and the return).
WfjPoll ==
    /\ At("wait_for_job")
    /\ outcome = "active"
    /\ IsWaiting(status)
    /\ \E latency \in 0..MaxLatency, r \in JobResponses :
          LET status_new == Title(r.status)
              now == elapsed + Advance(latency)
              line == Notice(status, status_new)
              final == Tracked(status, status_new)
          IN  /\ elapsed' = now
              /\ Sent(StatusRequest(r.code))
              /\ IF ~CodeIs(r.code, CodeOk)
                 THEN /\ outcome' = "http_failed"
                      /\ Stop("AssertionError: code")
                      /\ UNCHANGED << status, observed, printed, wfj_return >>
                 ELSE /\ status' = final
                      /\ observed' = Append(observed, r.status)
                      /\ IF TimedOut(now - StartTime(first_seen), timeout)
                         THEN /\ outcome' = "timeout"
                              /\ printed' = printed \o << line, "Job timeout",
                                                         "Job status: " \o final >>
                              /\ wfj_return' = ReturnValue(final)
                              /\ Go(0)
                         ELSE /\ outcome' = "active"
                              /\ printed' = Append(printed, line)
                              /\ UNCHANGED wfj_return
                              /\ Go(0)
    /\ UNCHANGED << flow, listVars, sessionVars, env, base_experiment_ids, rest,
                    next_id, files, calls, read_status, timeout, first_seen >>

\* The call returns to its cell: the frame and its locals are gone, the
\* history keeps how the call ended.
WfjReturn ==
    /\ At("wait_for_job")
    /\ outcome \in {"normal", "timeout"}
    /\ calls' = Append(calls, [job |-> Val(Cur.job), outcome |-> outcome,
                                waiting |-> status \in {"Pending", "Running"}])
    /\ timeout' = 0
    /\ elapsed' = 0
    /\ first_seen' = 0
    /\ status' = NoStatus
    /\ observed' = << >>
    /\ printed' = << >>
    /\ outcome' = "idle"
    /\ wfj_return' = NoValue
    /\ Go(1)
    /\ UNCHANGED << flow, listVars, sessionVars, env, base_experiment_ids, rest,
                    next_id, files, log, read_status >>

(* ----------------------- download and cleaning up ---------------------- *)

\* The status GET of the download cell; its response code is not checked.
DownloadGate ==
    /\ At("download_gate")
    /\ Defined(Cur)
    /\ \E r \in GateResponses :
          /\ Sent(Entry("cell", JobBody(r)))
          /\ read_status' = r.status
          /\ IF r.status = NoStatus THEN Stop("KeyError")
             ELSE IF DownloadAllowed(r.status) THEN Go(1)
             ELSE Go(1 + Cur.skip)
    /\ UNCHANGED << flow, listVars, sessionVars, env, base_experiment_ids, rest,
                    next_id, files, calls, wfjVars >>

CodeCheckPasses(check, code) ==
    IF check = "raise_for_status" THEN RaiseForStatusPasses(code)
    ELSE CodeIs(code, CodeOk)

\* GET ...:download, the check of its code, the archive written to disk.
Download ==
    /\ At("download")
    /\ Defined(Cur)
    /\ \E code \in Codes(Cur.op) :
          /\ Sent(Entry("cell", Plain(code)))
          /\ IF CodeCheckPasses(Cur.check, code)
             THEN files' = files \cup {Val(Cur.job)} /\ Go(1)
             ELSE UNCHANGED files /\ Stop("AssertionError: code")
    /\ UNCHANGED << flow, listVars, sessionVars, env, base_experiment_ids, rest,
                    next_id, calls, read_status, wfjVars >>

\* The status GET of a cleanup cell; its response code is not checked.
CancelGate ==
    /\ At("cancel_gate")
    /\ Defined(Cur)
    /\ \E r \in GateResponses :
          /\ Sent(Entry("cell", JobBody(r)))
          /\ read_status' = r.status
          /\ IF r.status = NoStatus THEN Stop("KeyError")
             ELSE IF CancelNeeded(r.status) THEN Go(1)
             ELSE Go(1 + Cur.skip)
    /\ UNCHANGED << flow, listVars, sessionVars, env, base_experiment_ids, rest,
                    next_id, files, calls, wfjVars >>

\* The same requests with the response code printed and not asserted.
Unchecked200(op) ==
    /\ At(op)
    /\ Defined(Cur)
    /\ \E code \in Codes(Cur.op) :
          /\ Sent(Entry("cell", Plain(code)))
          /\ Go(1)
    /\ UNCHANGED << flow, listVars, sessionVars, env, base_experiment_ids, rest,
                    next_id, files, calls, read_status, wfjVars >>

\* The three requests that are followed by assert status_code == 200 only.
Checked200(op) ==
    /\ At(op)
    /\ Defined(Cur)
    /\ \E code \in Codes(Cur.op) :
          /\ Sent(Entry("cell", Plain(code)))
          /\ IF CodeIs(code, CodeOk) THEN Go(1) ELSE Stop("AssertionError: code")
    /\ UNCHANGED << flow, listVars, sessionVars, env, base_experiment_ids, rest,
                    next_id, files, calls, read_status, wfjVars >>

Cancel == Checked200("cancel")
DeleteExperiment == Checked200("delete_experiment")
DeleteDataset == Checked200("delete_dataset")

\* One iteration of: for base_experiment_id in base_experiment_ids.
DeleteBaseExperiment ==
    /\ At("delete_base_experiments")
    /\ rest # << >>
    /\ \E code \in Codes(Cur.op) :
          /\ Sent([Entry("cell", Plain(code)) EXCEPT !.op = "delete_experiment",
                                                    !.exp = Head(rest)])
          /\ IF CodeIs(code, CodeOk)
             THEN rest' = Tail(rest) /\ Go(0)
             ELSE UNCHANGED rest /\ Stop("AssertionError: code")
    /\ UNCHANGED << flow, listVars, sessionVars, env, base_experiment_ids, next_id,
                    files, calls, read_status, wfjVars >>

\* The end of that loop.
DeleteBaseExperimentsDone ==
    /\ At("delete_base_experiments")
    /\ rest = << >>
    /\ Go(1)
    /\ UNCHANGED << flow, listVars, sessionVars, env, base_experiment_ids, rest,
                    next_id, files, log, calls, read_status, wfjVars >>

Next ==
    \/ RaiseNameError
    \/ Login
    \/ CreateDataset
    \/ ListBaseExperiments
    \/ CreateExperiment
    \/ SubmitJob
    \/ GetJob
    \/ WfjStart
    \/ WfjExit
    \/ WfjPoll
    \/ WfjReturn
    \/ ListGenerated
    \/ GetExperiment
    \/ DownloadGate
    \/ Download
    \/ CancelGate
    \/ Cancel
    \/ DeleteExperiment
    \/ DeleteDataset
    \/ DeleteBaseExperiment
    \/ DeleteBaseExperimentsDone

Spec == Init /\ [][Next]_vars

\* Run All executes the next cell, statement or loop iteration as long as
\* there is one, and every request and every sleep returns.
FairSpec == Spec /\ WF_vars(Next)

TypeOK ==
    /\ flow \in Flows
    /\ ip \in 1..(Len(Program(flow)) + 1)
    /\ elapsed \in Nat
    /\ timeout \in Timeouts \cup {0}
    /\ outcome \in {"idle", "active", "normal", "timeout", "job_failed", "http_failed"}
(* ------------------------------ properties ----------------------------- *)

Last(s) == s[Len(s)]
Ended == outcome \in {"normal", "timeout", "job_failed", "http_failed"}
Returning == outcome \in {"normal", "timeout"}
AllWaiting(s) == \A i \in 1..Len(s) : s[i] \in {"Pending", "Running"}
Front(s) == SubSeq(s, 1, Len(s) - 1)

\* C1: when the statuses wait_for_job has observed are Pending / Running
\* observations followed by Done, the call ends without raising and its
\* final status is Done.
C1_DoneEndsNormally ==
    (Ended /\ observed # << >> /\ Last(observed) = "Done" /\ AllWaiting(Front(observed)))
        => /\ Returning
           /\ error = NoError
           /\ status = "Done"

C1_Witness ==
    /\ outcome = "normal"
    /\ observed = << "Pending", "Pending", "Running", "Done" >>
    /\ timeout >= 3 * Interval
    /\ status = "Done"

\* C2: whenever the last status wait_for_job observed is Error, the call
\* ends by raising the job failure (and by neither the Done nor the timeout
\* exit), whatever the timeout and whenever the status shows up.
C2_ErrorRaises ==
    (Ended /\ outcome # "http_failed" /\ observed # << >> /\ Last(observed) = "Error")
        => /\ outcome = "job_failed"
           /\ error = "AssertionError: job failed"

\* C3: when every status observed is Pending or Running, the call goes on
\* polling until a poll finds the elapsed time above the timeout, and then
\* ends without raising, reports the timeout and keeps the last status.
C3_TimeoutOnWaiting ==
    /\ (outcome = "active" /\ Len(observed) > 1) => elapsed <= timeout
    /\ (Ended /\ outcome # "http_failed" /\ observed # << >> /\ AllWaiting(observed))
          => /\ outcome = "timeout"
             /\ error = NoError
             /\ elapsed > timeout
             /\ \E i \in 1..Len(printed) : printed[i] = "Job timeout"
             /\ status = Last(observed)

C3_Witness ==
    /\ outcome = "timeout"
    /\ observed = << "Running", "Running", "Running" >>
    /\ status = "Running"
    /\ error = NoError

\* C4 as stated: the call returns the status it ended with.
C4_ReturnsStatus == Returning => wfj_return = status

\* C4, amended: the call returns no value; the status it ended with is only
\* printed, as the last line of its output.
C4_ReturnsNone ==
    Returning => /\ wfj_return = NoValue
                 /\ Last(printed) = "Job status: " \o status

C4_Witness ==
    /\ outcome = "timeout"
    /\ status = "Running"
    /\ wfj_return = NoValue
    /\ Last(printed) = "Job status: Running"
(* Properties of the request history. *)

Idx == 1..Len(log)
Is(i, op) == log[i].op = op
Range(s) == {s[i] : i \in 1..Len(s)}

\* The request before request i that is not itself a download.
GateOf(i) == CHOOSE j \in 0..(i - 1) :
                /\ j > 0 => ~Is(j, "download")
                /\ \A k \in (j + 1)..(i - 1) : Is(k, "download")

\* C5: a download request is sent only when the status GET sent just before
\* it, for the same job, reported exactly Done; otherwise no download is
\* sent and no archive is written.
C5_DownloadGated ==
    /\ \A i \in Idx : Is(i, "download") =>
          /\ GateOf(i) > 0
          /\ Is(GateOf(i), "download_gate")
          /\ log[GateOf(i)].done
          /\ log[GateOf(i)].exp = log[i].exp
          /\ log[GateOf(i)].job = log[i].job
    /\ (log # << >> /\ Is(Len(log), "download")) => read_status = "Done"
    /\ \A f \in files : \E i \in Idx : Is(i, "download") /\ log[i].job = f

C5_Witness ==
    /\ \E i \in Idx : Is(i, "download") /\ log[i].code = CodeOk
    /\ files # {}
    /\ read_status = "Done"

\* C6: a dataset DELETE is sent only after a DELETE has returned 200 for
\* every experiment the client created with that dataset in its payload.
C6_DatasetDeletedLast ==
    \A i \in Idx : Is(i, "delete_dataset") =>
        \A j \in Idx :
            (/\ Is(j, "create_experiment")
             /\ log[j].code = CodeCreated
             /\ log[j].dss \cap log[i].dss # {})
            => \E k \in (j + 1)..(i - 1) :
                  /\ Is(k, "delete_experiment")
                  /\ log[k].exp = log[j].rid
                  /\ log[k].code = CodeOk

C6_Witness ==
    \E i \in Idx, j \in Idx :
        /\ Is(i, "delete_dataset") /\ log[i].code = CodeOk
        /\ Is(j, "create_experiment") /\ log[j].dss \cap log[i].dss # {}

\* C7: an experiment DELETE is sent only after each job submitted under that
\* experiment was reported Done by the status GET of the cleanup cell or had
\* its cancel POST answered with 200.
C7_JobsSettledBeforeDelete ==
    \A i \in Idx : Is(i, "delete_experiment") =>
        \A j \in 1..(i - 1) :
            (/\ Is(j, "submit_job")
             /\ log[j].code = CodeCreated
             /\ log[j].exp = log[i].exp)
            => \E k \in (j + 1)..(i - 1) :
                  /\ log[k].exp = log[i].exp
                  /\ log[k].job = log[j].rid
                  /\ \/ Is(k, "cancel_gate") /\ log[k].done
                     \/ Is(k, "cancel") /\ log[k].code = CodeOk

C7_Witness ==
    \E i \in Idx, k \in Idx :
        /\ k < i
        /\ Is(k, "cancel") /\ log[k].code = CodeOk
        /\ Is(i, "delete_experiment") /\ log[i].exp = log[k].exp

\* C8: when the login response has a code other than 201 or lacks user_id
\* or token, the run stops with the login failure and the login stays the
\* only request ever sent.
LoginRefused ==
    /\ log # << >>
    /\ Is(1, "login")
    /\ \/ log[1].code # CodeCreated
       \/ "user_id" \notin log[1].keys
       \/ "token" \notin log[1].keys

C8_LoginFailureStops ==
    LoginRefused => /\ Len(log) = 1
                    /\ error = "AssertionError: login"
                    /\ headers = NoToken

C8_Witness ==
    /\ LoginRefused
    /\ log[1].code = CodeCreated
    /\ log[1].keys = {"user_id"}
    /\ error # NoError

\* C9: an experiment-create POST carries only dataset ids that came with a
\* 201 dataset-create response, and a job-submit POST targets only an
\* experiment id that came with an earlier experiment response.
C9_CreationOrder ==
    /\ \A i \in Idx : Is(i, "create_experiment") =>
          /\ log[i].dss # {}
          /\ \A d \in log[i].dss : \E j \in 1..(i - 1) :
                /\ Is(j, "create_dataset")
                /\ log[j].code = CodeCreated
                /\ log[j].rid = d
    /\ \A i \in Idx : Is(i, "submit_job") =>
          \E j \in 1..(i - 1) :
             \/ /\ Is(j, "create_experiment")
                /\ log[j].code = CodeCreated
                /\ log[j].rid = log[i].exp
             \/ /\ Is(j, "list_generated")
                /\ log[j].code = CodeOk
                /\ log[i].exp \in Range(log[j].listed)

C9_Witness ==
    /\ flow = "auto3dseg"
    /\ \E i \in Idx, j \in Idx :
          /\ i < j
          /\ Is(i, "submit_job") /\ log[i].code = CodeCreated
          /\ Is(j, "submit_job") /\ log[j].code = CodeCreated

\* C10: no create, submit, cancel, download or delete request is sent twice,
\* and after the first response whose code is not the expected one no
\* further request is sent.
SameRequest(a, b) ==
    /\ a.op = b.op /\ a.exp = b.exp /\ a.job = b.job
    /\ a.dss = b.dss /\ a.base = b.base /\ a.data = b.data

SentOnce ==
    {"create_dataset", "create_experiment", "submit_job", "cancel", "download",
     "delete_experiment", "delete_dataset"}

C10_NoRetryHardStop ==
    /\ \A i \in Idx, j \in Idx :
          (i < j /\ log[i].op \in SentOnce) => ~SameRequest(log[i], log[j])
    /\ \A i \in Idx : log[i].code # Expected(log[i].op) => i = Len(log)

\* The place of a request in the order of a one-job flow.
Phase(op) ==
    CASE op = "login" -> 1
      [] op = "create_dataset" -> 2
      [] op \in {"list_base", "create_experiment"} -> 3
      [] op = "submit_job" -> 4
      [] op \in {"get_job", "wait_for_job"} -> 5
      [] op \in {"download_gate", "download"} -> 6
      [] op \in {"cancel_gate", "cancel"} -> 7
      [] op = "delete_experiment" -> 8
      [] op = "delete_dataset" -> 9
      [] OTHER -> 0

\* The same for every flow: in Auto3DSeg the second job is created after
\* the first has been waited for.
CoarsePhase(op) ==
    CASE op = "login" -> 1
      [] op \in {"download_gate", "download"} -> 3
      [] op \in {"cancel_gate", "cancel"} -> 4
      [] op = "delete_experiment" -> 5
      [] op = "delete_dataset" -> 6
      [] OTHER -> 2

Finished == error = NoError /\ ip > Len(Program(flow))

\* Every response so far carried its success code, every wait_for_job call
\* ended on the Done assertion, and every later status GET reported "Done".
HappyPath ==
    /\ error = NoError
    /\ \A i \in Idx : log[i].code = Expected(log[i].op)
    /\ \A i \in Idx : log[i].op \in {"download_gate", "cancel_gate"} => log[i].done
    /\ \A c \in Range(calls) : c.outcome = "normal"
    /\ outcome # "timeout"

\* C11: on the happy path the requests are sent in the order login, create
\* dataset(s), create experiment, submit job, status polls, download, delete
\* experiment, delete dataset(s); no cancel request is sent; and a flow with
\* a job that runs to its end has downloaded and deleted.
C11_HappyPathOrder ==
    HappyPath =>
        /\ \A i \in Idx : ~Is(i, "cancel")
        /\ \A i \in Idx, j \in Idx :
              i < j => /\ CoarsePhase(log[i].op) <= CoarsePhase(log[j].op)
                       /\ flow # "auto3dseg" => Phase(log[i].op) <= Phase(log[j].op)
        /\ \A i \in Idx : Is(i, "download") =>
              \E k \in 1..(i - 1) : Is(k, "wait_for_job") /\ log[k].job = log[i].job
        /\ (Finished /\ flow \in {"segmentation", "custom", "auto3dseg"}) =>
              /\ \E i \in Idx : Is(i, "download")
              /\ files # {}
              /\ \E i \in Idx : Is(i, "delete_experiment")
              /\ Is(Len(log), "delete_dataset")

C11_Witness ==
    /\ HappyPath
    /\ Finished
    /\ flow = "custom"
    /\ \E i \in Idx : Is(i, "download")
    /\ \E i \in Idx : Is(i, "cancel_gate")
    /\ Len(calls) = 1

\* C12: a cancel POST is sent only when the status GET just before it, for
\* the same job, reported Pending or Running; never for a job reported in a
\* terminal status (Done or Error).
C12_CancelOnlyNonTerminal ==
    (log # << >> /\ Is(Len(log), "cancel")) =>
        /\ Len(log) > 1
        /\ Is(Len(log) - 1, "cancel_gate")
        /\ log[Len(log) - 1].job = Last(log).job
        /\ Title(read_status) \in {"Pending", "Running"}

\* C13: whenever wait_for_job has printed its timeout report, the status it
\* ends with is Pending or Running; no call both reports a timeout and ends
\* with status Done.
C13_TimeoutNeverDone ==
    /\ (\E i \in 1..Len(printed) : printed[i] = "Job timeout")
          => /\ status \in {"Pending", "Running"}
             /\ Last(printed) # "Job status: Done"
    /\ \A c \in Range(calls) : c.outcome = "timeout" => c.waiting

\* The wire statuses that differ from s in letter case only.
SameUpToCase(s) == {t \in WireStatuses : Title(t) = Title(s)}

\* C14: the client decides the same for two statuses that differ only in
\* letter case: whether wait_for_job keeps polling or ends, whether the
\* download request is sent, whether the cancel request is sent.
C14_CaseInsensitive ==
    /\ (outcome = "active" /\ observed # << >>) =>
          \A t \in SameUpToCase(Last(observed)) :
              /\ IsWaiting(Title(t)) = IsWaiting(status)
              /\ IsDone(Title(t)) = IsDone(status)
    /\ (log # << >> /\ Is(Len(log), "download_gate") /\ error = NoError) =>
          \A t \in SameUpToCase(read_status) :
              DownloadAllowed(t) = (Cur.op = "download")
    /\ (log # << >> /\ Is(Len(log), "cancel_gate") /\ error = NoError) =>
          \A t \in SameUpToCase(read_status) :
              CancelNeeded(t) = (Cur.op = "cancel")

\* The login cell has run to its last line.
LoggedIn == headers # NoToken

\* C15: once the login has succeeded, token, user id, base URL and headers
\* are never assigned again, and every later request is sent under that
\* base URL with the header Authorization: Bearer <token> built from the
\* token of the login response.
C15_SessionReadOnly ==
    /\ [](LoggedIn =>
            /\ token = Jwt /\ user_id = UserId
            /\ \A i \in Idx : i > 1 =>
                  /\ log[i].auth = "Bearer " \o token
                  /\ log[i].root = "/api/v1/users/" \o user_id)
    /\ [](~LoggedIn => Len(log) <= 1)
    /\ [][LoggedIn => /\ token' = token /\ user_id' = user_id
                      /\ base_url' = base_url /\ headers' = headers]_vars

C15_Witness ==
    /\ LoggedIn
    /\ Finished
    /\ flow = "segmentation"
    /\ \E i \in Idx : Is(i, "download") /\ log[i].auth = "Bearer jwt-1"
    /\ \E i \in Idx : Is(i, "cancel")
    /\ Is(Len(log), "delete_dataset")

SubmitFailed(i) == Is(i, "submit_job") /\ log[i].code # CodeCreated
Recorded(id) == \E n \in Names : env[n] = id

\* C16: when a job-submit POST is answered with a code other than 201, the
\* flow stops there: no DELETE and no cancel is sent before or after it, the
\* ids of the experiment and datasets created so far stay recorded, and
\* the failing cell changes no notebook variable.
C16_NoRollback ==
    /\ [](\A i \in Idx : SubmitFailed(i) =>
            /\ i = Len(log)
            /\ error = "AssertionError: code"
            /\ \A k \in Idx :
                  log[k].op \notin {"cancel", "delete_experiment", "delete_dataset"}
            /\ Recorded(log[i].exp)
            /\ \A d \in Idx :
                  (Is(d, "create_dataset") /\ log[d].code = CodeCreated)
                      => Recorded(log[d].rid)
            /\ env[Cur.var] = Undefined)
    /\ [][(At("submit_job") /\ log' # log /\ Last(log').code # CodeCreated)
              => /\ env' = env
                 /\ next_id' = next_id
                 /\ Len(log') = Len(log) + 1]_vars

C16_Witness ==
    /\ flow = "auto3dseg"
    /\ Len(log) > 8
    /\ SubmitFailed(Len(log))
    /\ Recorded(Last(log).exp)
    /\ error # NoError

Deletes == {"delete_experiment", "delete_dataset"}

\* C17: when a DELETE of an experiment or a dataset is answered with a code
\* other than 200, the run stops with the failed assertion and that DELETE
\* stays the last request sent.
C17_RejectedDeleteStops ==
    \A i \in Idx : (log[i].op \in Deletes /\ log[i].code # CodeOk) =>
        /\ i = Len(log)
        /\ error = "AssertionError: code"
        /\ ~Finished

C17_Witness ==
    /\ flow = "auto3dseg"
    /\ \E i \in Idx : Is(i, "delete_experiment") /\ log[i].code = CodeOk
    /\ Is(Len(log), "delete_dataset")
    /\ Last(log).code = CodeError
    /\ Cardinality({i \in Idx : Is(i, "delete_dataset")}) = 1
    /\ error = "AssertionError: code"

JobGets == {"get_job", "wait_for_job", "download_gate", "cancel_gate"}

\* C18: every GET of a job resource has its code checked for 200 before its
\* body is used: a job GET answered with another code is the last request
\* of the run, the run stops on the failed code assertion, and no cell has
\* read the status field of that response.
C18_JobGetsChecked ==
    \A i \in Idx : (log[i].op \in JobGets /\ log[i].code # CodeOk) =>
        /\ i = Len(log)
        /\ error = "AssertionError: code"
        /\ ~log[i].done

\* The requests that create jobs, in the order sent.
JobSubmits == {i \in Idx : Is(i, "submit_job")}
FirstSubmit == CHOOSE i \in JobSubmits : \A j \in JobSubmits : i <= j

\* C19: a second job is submitted (and so polled) only after the
\* wait_for_job call for the first job has ended, and ended with the first
\* job in a terminal status.
C19_SequentialJobs ==
    \A i \in JobSubmits : i # FirstSubmit =>
        /\ log[FirstSubmit].code = CodeCreated
        /\ calls # << >>
        /\ calls[1].job = log[FirstSubmit].rid
        /\ \E k \in (FirstSubmit + 1)..(i - 1) :
              Is(k, "wait_for_job") /\ log[k].job = calls[1].job
        /\ ~calls[1].waiting

\* C20 as stated: the loop is left through the timeout branch only when the
\* time since the first status observation exceeds the timeout; the time
\* before that observation is not counted.
C20_SinceFirstObservation ==
    outcome = "timeout" => elapsed - first_seen > timeout

\* C20, amended: the clock runs from the entry of the call, so the time the
\* first GET takes is counted.  The loop is left through the timeout branch
\* only after a poll, and only when the time since entry strictly exceeds
\* the timeout; after a poll that finds the time since entry at most the
\* timeout the loop goes on.
C20_SinceCallEntry ==
    /\ outcome = "timeout" => /\ elapsed > timeout
                              /\ Len(observed) > 1
    /\ (outcome = "active" /\ Len(observed) > 1) => elapsed <= timeout
    /\ (outcome = "active" /\ Len(observed) = 1) => elapsed = first_seen

C20_Witness ==
    /\ outcome = "timeout"
    /\ timeout = MaxIntervals * Interval
    /\ elapsed = timeout + 1
    /\ first_seen = 1
    /\ elapsed - first_seen <= timeout
    /\ AllWaiting(observed)

\* Polls of the current call that got an answer: all observations but the
\* first.
Polls == 2..Len(observed)

\* C21: each poll after the first prints exactly one thing: the new status
\* if it differs from the one observed before, a dot otherwise; and after
\* the poll the tracked status is the newly observed one.
C21_OneOutputPerPoll ==
    (outcome \in {"active", "normal", "timeout", "job_failed"} /\ observed # << >>) =>
        /\ Len(printed) >= Len(observed) + 1
        /\ outcome = "active" => Len(printed) = Len(observed) + 1
        /\ \A k \in Polls :
              /\ printed[k + 1] \in {Title(observed[k]), "."}
              /\ printed[k + 1] = Title(observed[k])
                    <=> Title(observed[k]) # Title(observed[k - 1])
        /\ status = Title(Last(observed))

C21_Witness ==
    /\ outcome = "active"
    /\ observed = << "Pending", "Pending", "Running" >>
    /\ printed = << "Waiting for job to complete...", "Pending", ".", "Running" >>
    /\ status = "Running"

\* The listed experiments that the Auto3DSeg cell looks for.
Matches(listing) ==
    {i \in 1..Len(listing) : /\ listing[i].network_arch = "monai_automl"
                             /\ listing[i].name = "MONAI Auto3dSeg"}

Listed == flow = "auto3dseg" /\ log # << >> /\ Is(Len(log), "list_base")
             /\ Last(log).code = CodeOk

\* C22: the base experiment chosen for Auto3DSeg is a listed experiment
\* with network_arch monai_automl and name "MONAI Auto3dSeg" whose version
\* is at least that of every other such experiment; with no such experiment
\* listed the flow stops and never creates an experiment.
C22_LatestBaseExperiment ==
    /\ (Listed /\ Matches(res) # {}) =>
          /\ error = NoError
          /\ \E i \in Matches(res) :
                /\ env["base_experiment_id"] = res[i].id
                /\ \A j \in Matches(res) : res[i].version >= res[j].version
    /\ (Listed /\ Matches(res) = {}) =>
          /\ error = "AssertionError: empty"
          /\ env["base_experiment_id"] = Undefined
    /\ (flow = "auto3dseg" /\ error = "AssertionError: empty"
            /\ env["base_experiment_id"] = Undefined) =>
          \A i \in Idx : ~Is(i, "create_experiment")
    /\ \A i \in Idx : (flow = "auto3dseg" /\ Is(i, "create_experiment")) =>
          log[i].base # Undefined

C22_Witness ==
    /\ Listed
    /\ Cardinality(Matches(res)) = 2
    /\ res[1].network_arch = "monai_vista3d"
    /\ \E i \in Matches(res) : res[i].version = 2 /\ env["base_experiment_id"] = res[i].id
    /\ \E i \in Matches(res) : res[i].version = 1

Max(a, b) == IF a >= b THEN a ELSE b

InCall == ip <= Len(Program(flow)) /\ Cur.op = "wait_for_job" /\ outcome # "idle"

\* The GETs the current wait_for_job call has sent after its first one.
PollCount ==
    Cardinality({k \in Idx : Is(k, "wait_for_job") /\ log[k].job = Val(Cur.job)}) - 1

\* C23 as stated: a call sends at most floor(timeout / interval) + 1 polls
\* after its first GET, for any timeout.
C23_PollBound ==
    InCall => PollCount <= (timeout \div Interval) + 1

\* C23, amended: a call always ends (returns or raises), after at most
\* max(0, floor(timeout / interval)) + 1 polls: one poll is sent before the
\* first timeout test even when the timeout is negative.
C23_Terminates ==
    /\ [](InCall => PollCount <= Max(0, timeout \div Interval) + 1)
    /\ (outcome = "active") ~> (outcome # "active")

C23_Witness ==
    /\ InCall
    /\ outcome = "timeout"
    /\ timeout = MaxIntervals * Interval
    /\ PollCount = MaxIntervals + 1
    /\ AllWaiting(observed)

\* The experiments this session created with a POST: the ids of the 201
\* responses and the base experiments those responses say were created.
CreatedExperiments ==
    UNION {{log[i].rid} \cup Range(log[i].listed) :
              i \in {j \in Idx : Is(j, "create_experiment") /\ log[j].code = CodeCreated}}

CreatedDatasets ==
    {log[i].rid : i \in {j \in Idx : Is(j, "create_dataset") /\ log[j].code = CodeCreated}}

\* The experiment generated by the auto3dseg job of this session.
GeneratedExperiments ==
    IF \E i \in Idx : Is(i, "submit_job") /\ log[i].code = CodeCreated
    THEN {201} ELSE {}

\* C24: every experiment id passed to a DELETE is one this session created
\* with a POST or one generated by a job it submitted, and every dataset id
\* passed to a DELETE is one this session created.
C24_DeletesOwnOnly ==
    \A i \in Idx :
        /\ Is(i, "delete_experiment") =>
              log[i].exp \in CreatedExperiments \cup GeneratedExperiments
        /\ Is(i, "delete_dataset") => log[i].dss \subseteq CreatedDatasets

\* C25: when the status GET of a cleanup cell reports a status other than
\* Done, the request that follows is the cancel POST for the same
\* experiment and the same job, and once sent it is the last request unless
\* it was answered with 200.
C25_CancelSameJob ==
    /\ (log # << >> /\ Is(Len(log), "cancel_gate")
            /\ read_status \notin {NoStatus, "Done"}) =>
          /\ error = NoError
          /\ Cur.op = "cancel"
          /\ Val(Cur.exp) = Last(log).exp
          /\ Val(Cur.job) = Last(log).job
    /\ \A i \in Idx : Is(i, "cancel") =>
          /\ i > 1
          /\ Is(i - 1, "cancel_gate")
          /\ log[i - 1].exp = log[i].exp
          /\ log[i - 1].job = log[i].job
          /\ log[i].code # CodeOk => i = Len(log) /\ error = "AssertionError: code"

\* Every dataset and experiment created with a POST has had a DELETE
\* answered with 200.
AllDeleted ==
    /\ \A d \in CreatedDatasets : \E k \in Idx :
          Is(k, "delete_dataset") /\ log[k].dss = {d} /\ log[k].code = CodeOk
    /\ \A e \in CreatedExperiments : \E k \in Idx :
          Is(k, "delete_experiment") /\ log[k].exp = e /\ log[k].code = CodeOk

C27_WaitIsReadOnly ==
    /\ [](\A i \in Idx : log[i].ctx = "wait_for_job" =>
            /\ Method(log[i].op) = "GET"
            /\ log[i].op = "wait_for_job"
            /\ log[i].job # Undefined)
    /\ [][At("wait_for_job") =>
            /\ \/ log' = log
               \/ /\ log' = Append(log, Last(log'))
                  /\ Last(log').ctx = "wait_for_job"
                  /\ Method(Last(log').op) = "GET"
                  /\ Last(log').exp = Val(Cur.exp)
                  /\ Last(log').job = Val(Cur.job)
            /\ env' = env
            /\ files' = files]_vars

C27_Witness ==
    /\ InCall
    /\ outcome = "job_failed"
    /\ Len(observed) = 3
    /\ PollCount = 2
    /\ \A i \in Idx : Method(log[i].op) = "GET" => Is(i, "get_job") \/ Is(i, "wait_for_job")

\* The current call has ended after at least one observation.
EndedObserved ==
    outcome \in {"normal", "timeout", "job_failed", "http_failed"} /\ observed # << >>

\* C28: a call whose first observed status is Pending or Running cannot
\* end before it has slept once and sent one more GET, whatever the timeout
\* (zero and negative included); a call whose first observed status is Done
\* ends normally after that one GET, without any sleep.
C28_TimeoutAfterPoll ==
    /\ (InCall /\ EndedObserved /\ Title(observed[1]) \in {"Pending", "Running"}) =>
          /\ PollCount >= 1
          /\ elapsed >= first_seen + Interval
    /\ (InCall /\ observed # << >> /\ Title(observed[1]) = "Done") =>
          /\ outcome \in {"active", "normal"}
          /\ PollCount = 0
          /\ Len(observed) = 1
          /\ elapsed = first_seen
          /\ error = NoError

C28_Witness ==
    /\ InCall
    /\ outcome = "timeout"
    /\ timeout = -1
    /\ observed[1] = "Pending"
    /\ PollCount = 1
====
